---- MODULE Spec2Model ----
(***************************************************************************)
(* Balance analysis automation: extraction of labelled amounts from PDF    *)
(* financial statements into a template spreadsheet.                       *)
(*                                                                         *)
(* Text is a sequence of one-character strings.  An absent value (None)    *)
(* and the empty string are both the empty sequence: the program only ever *)
(* tests them for truthiness.                                              *)
(***************************************************************************)
EXTENDS Integers, Sequences, FiniteSets, TLC

VARIABLES
    val_str,      \* parse_currency_str: the argument
    parsed,       \* parse_currency_str: the outcome, once it has run
    pcParse,      \* "call" before parse_currency_str runs, "done" after, "idle"
    pdf_source,   \* extract_final_balance_by_label: the document
    label_text,   \* extract_final_balance_by_label: the label
    extracted,    \* extract_final_balance_by_label: the outcome, once it has run
    pcExtract,    \* "call" before the extractor runs, "done" after, "idle"
    files,        \* update_balance_analysis: the uploaded files of the request
    fileNo,       \* the position of the file loop (1-based)
    response,     \* 0 while the request runs, then its HTTP status
    workbook,     \* the cells written to the shared spreadsheet file
    trace,        \* what the last run of the core did, in order
    processed,    \* the positions of the files the core was called for
    raised        \* the exception that left the last run of the core, or ""

----------------------------------------------------------------------------
(* Characters *)

Digits == {"0", "1", "2", "3", "4", "5", "6", "7", "8", "9"}

\* str.strip() and float() treat these as whitespace
Whitespace == {" ", "\n", "\t"}

\* the character class [\d\.,()] of the fallback pattern
TokenChars == Digits \cup {".", ",", "(", ")"}

DigitValue(c) ==
    CASE c = "0" -> 0 [] c = "1" -> 1 [] c = "2" -> 2 [] c = "3" -> 3
      [] c = "4" -> 4 [] c = "5" -> 5 [] c = "6" -> 6 [] c = "7" -> 7
      [] c = "8" -> 8 [] c = "9" -> 9

\* All strings over alphabet of length at most n
StringsUpTo(alphabet, n) == UNION {[1..k -> alphabet] : k \in 0..n}

----------------------------------------------------------------------------
(* Evaluation helpers *)

Min(S) == CHOOSE x \in S : \A y \in S : x <= y
Max(S) == CHOOSE x \in S : \A y \in S : x >= y

\* the element of a one-element set
TheOnly(S) == CHOOSE x \in S : TRUE

\* F applied to the value of v, which is computed once
With(v, F(_)) == TheOnly({F(x) : x \in {v}})

----------------------------------------------------------------------------
(* Python string primitives *)

RECURSIVE LStrip(_)
LStrip(s) ==
    IF s # <<>> /\ Head(s) \in Whitespace THEN LStrip(Tail(s)) ELSE s

RECURSIVE RStrip(_)
RStrip(s) ==
    With(s, LAMBDA t :
        IF t # <<>> /\ t[Len(t)] \in Whitespace
        THEN RStrip(SubSeq(t, 1, Len(t) - 1))
        ELSE t)

\* str.strip()
Strip(s) == RStrip(LStrip(s))

\* str.replace(old, new) for a one-character old and a new of length 0 or 1
RECURSIVE Replace(_, _, _)
Replace(s, old, new) ==
    IF s = <<>> THEN <<>>
    ELSE (IF Head(s) = old THEN new ELSE <<Head(s)>>) \o Replace(Tail(s), old, new)

StartsWith(s, c) == s # <<>> /\ s[1] = c
EndsWith(s, c) == s # <<>> /\ s[Len(s)] = c

\* `needle in haystack`
Contains(haystack, needle) ==
    \E i \in 1..(Len(haystack) - Len(needle) + 1) :
        SubSeq(haystack, i, i + Len(needle) - 1) = needle

----------------------------------------------------------------------------
(* Amounts: a float is kept as an exact signed decimal mant / 10^scale,    *)
(* with trailing fractional zeros dropped so that equal numbers are equal  *)
(* values.  ok = FALSE is a raised ValueError.                             *)

ValueError == [ok |-> FALSE, neg |-> FALSE, mant |-> 0, scale |-> 0]

Number(neg, mant, scale) == [ok |-> TRUE, neg |-> neg, mant |-> mant, scale |-> scale]

\* unary minus on a float (-0.0 keeps its sign bit)
Negate(x) == [x EXCEPT !.neg = ~x.neg]

RECURSIVE DigitsToNat(_)
DigitsToNat(ds) ==
    With(ds, LAMBDA d :
        IF d = <<>> THEN 0
        ELSE 10 * DigitsToNat(SubSeq(d, 1, Len(d) - 1)) + DigitValue(d[Len(d)]))

RECURSIVE DropTrailingZeros(_)
DropTrailingZeros(ds) ==
    With(ds, LAMBDA d :
        IF d # <<>> /\ d[Len(d)] = "0"
        THEN DropTrailingZeros(SubSeq(d, 1, Len(d) - 1))
        ELSE d)

AllDigits(s) == \A i \in 1..Len(s) : s[i] \in Digits

\* float(text) for text without exponent, inf, nan or underscore forms:
\* surrounding whitespace is ignored, then [sign] digits [. digits] with at
\* least one digit; anything else raises ValueError.
float(text) ==
    With(Strip(text), LAMBDA t :
    With(t # <<>> /\ t[1] \in {"+", "-"}, LAMBDA signed :
    With(IF signed THEN Tail(t) ELSE t, LAMBDA body :
    With({i \in 1..Len(body) : body[i] = "."}, LAMBDA dots :
    With(IF dots = {} THEN Len(body) + 1 ELSE CHOOSE i \in dots : TRUE, LAMBDA dot :
    With(SubSeq(body, 1, dot - 1), LAMBDA whole :
    With(SubSeq(body, dot + 1, Len(body)), LAMBDA frac :
    With(DropTrailingZeros(frac), LAMBDA fracN :
        IF /\ Cardinality(dots) <= 1
           /\ AllDigits(whole) /\ AllDigits(frac)
           /\ Len(whole) + Len(frac) >= 1
        THEN Number(signed /\ t[1] = "-", DigitsToNat(whole \o fracN), Len(fracN))
        ELSE ValueError))))))))

----------------------------------------------------------------------------
(* parse_currency_str *)

parse_currency_str_OnlyOpening(text) ==
    With(Strip(text), LAMBDA s0 :
    With(StartsWith(s0, "("), LAMBDA negative :
    With(IF negative THEN Strip(SubSeq(s0, 2, Len(s0) - 1)) ELSE s0, LAMBDA s :
    With(Replace(s, ".", <<>>), LAMBDA undotted :
    With(Replace(undotted, ",", <<".">>), LAMBDA clean :
    With(float(clean), LAMBDA num :
        IF ~num.ok THEN ValueError
        ELSE IF negative THEN Negate(num) ELSE num))))))

parse_currency_str(text) ==
    With(Strip(text), LAMBDA s0 :
    With(StartsWith(s0, "(") /\ EndsWith(s0, ")"), LAMBDA negative :
    With(IF negative THEN Strip(SubSeq(s0, 2, Len(s0) - 1)) ELSE s0, LAMBDA s :
    With(Replace(s, ".", <<>>), LAMBDA undotted :
    With(Replace(undotted, ",", <<".">>), LAMBDA clean :
    With(float(clean), LAMBDA num :
        IF ~num.ok THEN ValueError
        ELSE IF negative THEN Negate(num) ELSE num))))))

----------------------------------------------------------------------------
(* normalize_text.  Accented capitals are single characters written here  *)
(* in ASCII: "A~" is A with tilde, "E'" E with acute, "I'" I with acute,  *)
(* "C," C with cedilla.  NFD splits each into its base letter and a       *)
(* combining mark.                                                        *)

CombiningMarks == {"U+0303", "U+0301", "U+0327"}

Decomposition ==
    ("A~" :> <<"A", "U+0303">>) @@ ("E'" :> <<"E", "U+0301">>)
        @@ ("I'" :> <<"I", "U+0301">>) @@ ("C," :> <<"C", "U+0327">>)

UpperToLower ==
    ("A" :> "a") @@ ("B" :> "b") @@ ("C" :> "c") @@ ("D" :> "d") @@ ("E" :> "e")
        @@ ("F" :> "f") @@ ("G" :> "g") @@ ("H" :> "h") @@ ("I" :> "i")
        @@ ("J" :> "j") @@ ("K" :> "k") @@ ("L" :> "l") @@ ("M" :> "m")
        @@ ("N" :> "n") @@ ("O" :> "o") @@ ("P" :> "p") @@ ("Q" :> "q")
        @@ ("R" :> "r") @@ ("S" :> "s") @@ ("T" :> "t") @@ ("U" :> "u")
        @@ ("V" :> "v") @@ ("W" :> "w") @@ ("X" :> "x") @@ ("Y" :> "y")
        @@ ("Z" :> "z")

\* unicodedata.normalize('NFD', c) for one character
NFD(c) == IF c \in DOMAIN Decomposition THEN Decomposition[c] ELSE <<c>>

\* str.lower() for one character
Lower(c) == IF c \in DOMAIN UpperToLower THEN UpperToLower[c] ELSE c

\* what normalize_text makes of one character: its decomposition without the
\* combining marks, in lower case
NormalizedChar(c) ==
    LET kept == SelectSeq(NFD(c), LAMBDA m : m \notin CombiningMarks)
    IN  [i \in 1..Len(kept) |-> Lower(kept[i])]

\* the characters normalize_text changes, with what it makes of them
Normalized ==
    [c \in DOMAIN Decomposition \cup DOMAIN UpperToLower \cup CombiningMarks |->
        NormalizedChar(c)]

RECURSIVE normalize_text(_)
normalize_text(text) ==
    IF text = <<>> THEN <<>>
    ELSE (IF Head(text) \in DOMAIN Normalized THEN Normalized[Head(text)]
          ELSE <<Head(text)>>) \o normalize_text(Tail(text))

----------------------------------------------------------------------------
(* Documents: pdf.pages is a sequence of pages; a page has the tables of  *)
(* find_tables(), each the rows of table.extract() (a first row and the   *)
(* data rows, every row of the same width), and the text of               *)
(* extract_text().                                                        *)

Page(tables, text) == [tables |-> tables, text |-> text]

NotFound == [found |-> FALSE, val |-> <<>>, page |-> 0, path |-> "none"]

Found(val, page, path) == [found |-> TRUE, val |-> val, page |-> page, path |-> path]

SALDO_FINAL == <<"s", "a", "l", "d", "o", " ", "f", "i", "n", "a", "l">>

\* rows[r][c] of line 65: cell.strip() if cell else ''
StrippedCell(table, r, c) == Strip(table[r][c])

\* low.index('saldo final') of lines 67-69, or 0 when no header cell
\* normalizes to it
FinalBalanceColumn(table) ==
    LET cols == {c \in 1..Len(table[1]) :
                    normalize_text(StrippedCell(table, 1, c)) = SALDO_FINAL}
    IN  IF cols = {} THEN 0 ELSE Min(cols)

\* The first data row of one table that makes line 75 return: a cell
\* normalizes to the label and the cell in column idx is not empty; 0 when
\* there is none.
RECURSIVE FirstHitRow(_, _, _, _)
FirstHitRow(table, label_norm, idx, r) ==
    IF r > Len(table) THEN 0
    ELSE IF /\ StrippedCell(table, r, idx) # <<>>
            /\ \E c \in 1..Len(table[r]) :
                  normalize_text(StrippedCell(table, r, c)) = label_norm
    THEN r
    ELSE FirstHitRow(table, label_norm, idx, r + 1)

\* lines 64-75 for one table
TableLookup(table, label_norm) ==
    TheOnly({IF idx = 0 THEN [found |-> FALSE, val |-> <<>>]
             ELSE TheOnly({IF r = 0 THEN [found |-> FALSE, val |-> <<>>]
                           ELSE [found |-> TRUE, val |-> StrippedCell(table, r, idx)] :
                             r \in {FirstHitRow(table, label_norm, idx, 2)}}) :
               idx \in {FinalBalanceColumn(table)}})

\* lines 63-75 for one page: the tables from position t on, the first that
\* returns
RECURSIVE TablesFrom(_, _, _)
TablesFrom(page, label_norm, t) ==
    IF t > Len(page.tables) THEN [found |-> FALSE, val |-> <<>>]
    ELSE TheOnly({IF hit.found THEN hit ELSE TablesFrom(page, label_norm, t + 1) :
                    hit \in {TableLookup(page.tables[t], label_norm)}})

TablePath(page, label_norm) == TablesFrom(page, label_norm, 1)

\* the longest run of [^\d] starting at position p
RECURSIVE NonDigitRun(_, _)
NonDigitRun(t, p) ==
    IF p <= Len(t) /\ t[p] \notin Digits THEN 1 + NonDigitRun(t, p + 1) ELSE 0

\* the longest run of [\d\.,()] starting at position p
RECURSIVE TokenRun(_, _)
TokenRun(t, p) ==
    IF p <= Len(t) /\ t[p] \in TokenChars THEN 1 + TokenRun(t, p + 1) ELSE 0

\* The match of  label [^\d]*? ([\d\.,()]+) [^\d]*? ([\d\.,()]+)  that a
\* backtracking search finds first with the label at position s: the lazy
\* gaps a and b as short as possible, the greedy group g1 as long as possible,
\* tried in the order a, g1, b; group 2 then takes its whole run.
\* The result is <<start of group 1, length of group 1, start of group 2,
\* length of group 2>>, or <<>> when nothing matches at s.
PatternAt(t, s, label_norm) ==
    LET p0 == s + Len(label_norm)
        BOk(a, g1, b) == TokenRun(t, p0 + a + g1 + b) >= 1
        G1Ok(a, g1) == \E b \in 0..NonDigitRun(t, p0 + a + g1) : BOk(a, g1, b)
        AOk(a) == \E g1 \in 1..TokenRun(t, p0 + a) : G1Ok(a, g1)
        as == {a \in 0..NonDigitRun(t, p0) : AOk(a)}
    IN  IF SubSeq(t, s, p0 - 1) # label_norm \/ as = {} THEN <<>>
        ELSE LET a == Min(as)
                 g1 == Max({g \in 1..TokenRun(t, p0 + a) : G1Ok(a, g)})
                 b == Min({x \in 0..NonDigitRun(t, p0 + a + g1) : BOk(a, g1, x)})
             IN  <<p0 + a, g1, p0 + a + g1 + b, TokenRun(t, p0 + a + g1 + b)>>

\* re.search(pattern, text_norm): the match at the leftmost start that has one
PatternSearch(t, label_norm) ==
    LET starts == {s \in 1..(Len(t) - Len(label_norm) + 1) :
                      PatternAt(t, s, label_norm) # <<>>}
    IN  IF starts = {} THEN <<>> ELSE PatternAt(t, Min(starts), label_norm)

FirstGroupOfMatch(t, m) == SubSeq(t, m[1], m[1] + m[2] - 1)

\* m.group(2)
ReturnedGroup(t, m) == SubSeq(t, m[3], m[3] + m[4] - 1)

\* lines 76-81 for one page
TextFallback(page, label_norm) ==
    TheOnly({TheOnly({IF m = <<>> THEN [found |-> FALSE, val |-> <<>>]
                      ELSE [found |-> TRUE, val |-> ReturnedGroup(text_norm, m)] :
                        m \in {PatternSearch(text_norm, label_norm)}}) :
               text_norm \in {normalize_text(page.text)}})

\* one iteration of the page loop: the tables of the page, then its text
PageLookup(page, label_norm) ==
    TheOnly({IF t.found THEN [found |-> TRUE, val |-> t.val, path |-> "table"]
             ELSE TheOnly({IF x.found
                           THEN [found |-> TRUE, val |-> x.val, path |-> "text"]
                           ELSE [found |-> FALSE, val |-> <<>>, path |-> "none"] :
                             x \in {TextFallback(page, label_norm)}}) :
               t \in {TablePath(page, label_norm)}})

\* the page loop from page i on; NotFound is the ValueError of line 82
RECURSIVE LookupFrom(_, _, _)
LookupFrom(pdf, label_norm, i) ==
    IF i > Len(pdf) THEN NotFound
    ELSE TheOnly({IF r.found THEN Found(r.val, i, r.path)
                  ELSE LookupFrom(pdf, label_norm, i + 1) :
                    r \in {PageLookup(pdf[i], label_norm)}})

extract_final_balance_by_label(pdf, label) ==
    TheOnly({LookupFrom(pdf, label_norm, 1) : label_norm \in {normalize_text(label)}})

----------------------------------------------------------------------------
(* extract_entity_name and extract_section_types *)

ENTIDADE == <<"E", "n", "t", "i", "d", "a", "d", "e", ":">>
BALANCO_PHRASE == <<"b", "a", "l", "a", "n", "c", "o", " ", "p", "a", "t", "r", "i", "m", "o", "n", "i", "a", "l">>
DRE_PHRASE == <<"d", "e", "m", "o", "n", "s", "t", "r", "a", "c", "a", "o", " ", "d", "e", " ", "r", "e", "s", "u", "l", "t", "a", "d", "o", " ", "d", "o", " ", "e", "x", "e", "r", "c", "i", "c", "i", "o">>
APPLICATION_PDF == <<"a", "p", "p", "l", "i", "c", "a", "t", "i", "o", "n", "/", "p", "d", "f">>
Y2021 == <<"2", "0", "2", "1">>
Y2022 == <<"2", "0", "2", "2">>
Y2023 == <<"2", "0", "2", "3">>
Y2024 == <<"2", "0", "2", "4">>

\* the longest run of \s starting at position p
RECURSIVE WhitespaceRun(_, _)
WhitespaceRun(t, p) ==
    IF p <= Len(t) /\ t[p] \in Whitespace THEN 1 + WhitespaceRun(t, p + 1) ELSE 0

\* the longest run of '.' (anything but a newline) starting at position p
RECURSIVE LineRun(_, _)
LineRun(t, p) ==
    IF p <= Len(t) /\ t[p] # "\n" THEN 1 + LineRun(t, p + 1) ELSE 0

\* Entidade:\s*(.+) with the marker at position s: the greedy \s* gives back
\* characters until (.+) has something to take; the result is group 1, or
\* <<>> with found = FALSE when there is no match at s.
EntityAt(t, s) ==
    LET p0 == s + Len(ENTIDADE)
        ks == {k \in 0..WhitespaceRun(t, p0) : LineRun(t, p0 + k) >= 1}
    IN  IF SubSeq(t, s, p0 - 1) # ENTIDADE \/ ks = {}
        THEN [found |-> FALSE, val |-> <<>>]
        ELSE [found |-> TRUE,
              val |-> SubSeq(t, p0 + Max(ks), p0 + Max(ks) + LineRun(t, p0 + Max(ks)) - 1)]

EntitySearch(t) ==
    LET starts == {s \in 1..(Len(t) - Len(ENTIDADE) + 1) : EntityAt(t, s).found}
    IN  IF starts = {} THEN [found |-> FALSE, val |-> <<>>]
        ELSE EntityAt(t, Min(starts))

\* found = FALSE is the ValueError of line 39
RECURSIVE EntityFrom(_, _)
EntityFrom(pdf, i) ==
    IF i > Len(pdf) THEN [found |-> FALSE, val |-> <<>>]
    ELSE LET m == EntitySearch(pdf[i].text)
         IN  IF m.found THEN [found |-> TRUE, val |-> Strip(m.val)]
             ELSE EntityFrom(pdf, i + 1)

extract_entity_name(pdf) == EntityFrom(pdf, 1)

keywords == [balanco |-> BALANCO_PHRASE, dre |-> DRE_PHRASE]

extract_section_types(pdf) ==
    {key \in DOMAIN keywords :
        \E i \in 1..Len(pdf) : Contains(normalize_text(pdf[i].text), keywords[key])}

----------------------------------------------------------------------------
(* The spreadsheet and what a run leaves behind.                           *)
(*                                                                         *)
(* A run's state is the workbook file (a function from <<sheet, column,    *)
(* row>> to the cell written there), the number of update_balance_sheet    *)
(* calls made so far, and the trace of what the mappers did: every call of *)
(* the extractor, every call of update_balance_sheet and every line        *)
(* printed.  A call of update_balance_sheet raises when its ordinal is in  *)
(* `failing` (the file is locked or cannot be saved at that moment).       *)

SHEET_BALANCO == "COMPARATIVO BALANCO"
SHEET_DRE == "DRE e CICLO"

EmptyWorkbook == [c \in {} |-> 0]

Cell(value, is_currency) ==
    [value |-> value, format |-> IF is_currency THEN "currency" ELSE "centered"]

Event(mapper, op, label, row, ok) ==
    [mapper |-> mapper, op |-> op, label |-> label, row |-> row, ok |-> ok]

Log(st, e) == [st EXCEPT !.trace = Append(@, e)]

\* f"{column_prefix}{row}" on a sheet
CellRef(sheet_name, column_prefix, row) == <<sheet_name, column_prefix, row>>

\* load_workbook, set one cell and its format, save.  The result is the
\* state after the call and whether the call raised.
update_balance_sheet(st, failing, value, ref, is_currency, e) ==
    With(st.writes + 1, LAMBDA n :
        IF n \in failing
        THEN [st |-> [Log(st, [e EXCEPT !.ok = FALSE]) EXCEPT !.writes = n],
              raised |-> TRUE]
        ELSE [st |-> [Log(st, [e EXCEPT !.ok = TRUE]) EXCEPT
                        !.writes = n,
                        !.workbook = (ref :> Cell(value, is_currency)) @@ @],
              raised |-> FALSE])

----------------------------------------------------------------------------
(* handle_balanco *)

mapping ==
    << [label |-> <<"A", "T", "I", "V", "O">>, row |-> 7],
       [label |-> <<"D", "I", "S", "P", "O", "N", "I'", "V", "E", "L">>, row |-> 8],
       [label |-> <<"A", "T", "I", "V", "O", " ", "C", "I", "R", "C", "U", "L", "A", "N", "T", "E">>, row |-> 9],
       [label |-> <<"C", "O", "N", "T", "A", "S", " ", "A", " ", "R", "E", "C", "E", "B", "E", "R">>, row |-> 10],
       [label |-> <<"E", "S", "T", "O", "Q", "U", "E", "S">>, row |-> 11],
       [label |-> <<"I", "M", "O", "B", "I", "L", "I", "Z", "A", "D", "O">>, row |-> 12],
       [label |-> <<"A", "T", "I", "V", "O", " ", "N", "A~", "O", " ", "C", "I", "R", "C", "U", "L", "A", "N", "T", "E">>, row |-> 13],
       [label |-> <<"P", "A", "S", "S", "I", "V", "O">>, row |-> 14],
       [label |-> <<"P", "A", "S", "S", "I", "V", "O", " ", "C", "I", "R", "C", "U", "L", "A", "N", "T", "E">>, row |-> 15],
       [label |-> <<"F", "O", "R", "N", "E", "C", "E", "D", "O", "R", "E", "S">>, row |-> 16],
       [label |-> <<"S", "A", "L", "A", "R", "I", "O", "S", " ", "E", " ", "E", "N", "C", "A", "R", "G", "O", "S">>, row |-> 17],
       [label |-> <<"T", "R", "I", "B", "U", "T", "O", "S", " ", "A", " ", "R", "E", "C", "O", "L", "H", "E", "R">>, row |-> 18],
       [label |-> <<"E", "M", "P", "R", "E'", "S", "T", "I", "M", "O", "S", " ", "E", " ", "F", "I", "N", "A", "N", "C", "I", "A", "M", "E", "N", "T", "O", "S">>, row |-> 19],
       [label |-> <<"P", "A", "S", "S", "I", "V", "O", " ", "N", "A~", "O", " ", "C", "I", "R", "C", "U", "L", "A", "N", "T", "E">>, row |-> 20],
       [label |-> <<"P", "A", "T", "R", "I", "M", "O", "N", "I", "O", " ", "L", "I", "Q", "U", "I", "D", "O">>, row |-> 21] >>

\* one iteration of the loop of lines 143-152: every exception of the body is
\* caught and printed
BalancoEntry(pdf, st, failing, column_prefix, sheet_name, i) ==
    LET label == mapping[i].label
        row == mapping[i].row
    IN  With(extract_final_balance_by_label(pdf, label), LAMBDA x :
        With(Log(st, Event("balanco", "extract", label, row, x.found)), LAMBDA st1 :
            IF ~x.found
            THEN Log(st1, Event("balanco", "print", label, row, FALSE))
            ELSE With(parse_currency_str(x.val), LAMBDA val_num :
                IF ~val_num.ok
                THEN Log(st1, Event("balanco", "print", label, row, FALSE))
                ELSE With(update_balance_sheet(st1, failing, val_num,
                                               CellRef(sheet_name, column_prefix, row), TRUE,
                                               Event("balanco", "write", label, row, TRUE)),
                          LAMBDA w :
                    Log(w.st, Event("balanco", "print", label, row, ~w.raised))))))

\* the loop with the try around the whole loop instead of inside it: the
\* first label that fails ends the loop
RECURSIVE BalancoLoopEndsAtFirstError(_, _, _, _, _, _)
BalancoLoopEndsAtFirstError(pdf, st, failing, column_prefix, sheet_name, i) ==
    IF i > Len(mapping) THEN st
    ELSE TheOnly({IF ~next.trace[Len(next.trace)].ok THEN next
                  ELSE BalancoLoopEndsAtFirstError(pdf, next, failing, column_prefix,
                                                   sheet_name, i + 1) :
                    next \in {BalancoEntry(pdf, st, failing, column_prefix, sheet_name, i)}})

\* the loop from entry i on: `next` is the state when iteration i has ended
RECURSIVE BalancoLoop(_, _, _, _, _, _)
BalancoLoop(pdf, st, failing, column_prefix, sheet_name, i) ==
    IF i > Len(mapping) THEN st
    ELSE TheOnly({BalancoLoop(pdf, next, failing, column_prefix, sheet_name, i + 1) :
                    next \in {BalancoEntry(pdf, st, failing, column_prefix, sheet_name, i)}})

\* raised is "" when the mapper returns, else the exception that leaves it
handle_balanco(pdf, st, failing, column_prefix, sheet_name) ==
    With(extract_entity_name(pdf), LAMBDA entity :
        IF ~entity.found THEN [st |-> st, raised |-> "ValueError"]
        ELSE With(update_balance_sheet(st, failing, entity.val,
                                       CellRef(sheet_name, "B", 3), FALSE,
                                       Event("balanco", "write", <<>>, 3, TRUE)),
                  LAMBDA w :
            IF w.raised THEN [st |-> w.st, raised |-> "IOError"]
            ELSE [st |-> BalancoLoop(pdf, w.st, failing, column_prefix, sheet_name, 1),
                  raised |-> ""]))

----------------------------------------------------------------------------
(* handle_dre *)

dre_mapping ==
    << [labels |-> <<<<"R", "E", "C", "E", "I", "T", "A", " ", "O", "P", "E", "R", "A", "C", "I", "O", "N", "A", "L">>,
                     <<"R", "E", "C", "E", "I", "T", "A", " ", "L", "I", "Q", "U", "I", "D", "A">>>>,
        row |-> 8, is_list |-> TRUE],
       [labels |-> <<<<"R", "E", "C", "E", "I", "T", "A", " ", "O", "P", "E", "R", "A", "C", "I", "O", "N", "A", "L">>,
                     <<"R", "E", "C", "E", "I", "T", "A", " ", "L", "I", "Q", "U", "I", "D", "A">>>>,
        row |-> 9, is_list |-> TRUE],
       [labels |-> <<<<"C", "U", "S", "T", "O", "S", " ", "O", "P", "E", "R", "A", "C", "I", "O", "N", "A", "I", "S">>,
                     <<"C", "U", "S", "T", "O", " ", "D", "A", "S", " ", "V", "E", "N", "D", "A", "S", "/", "S", "E", "R", "V", "I", "C", "O", "S">>>>,
        row |-> 10, is_list |-> TRUE],
       [labels |-> <<<<"D", "E", "S", "P", "E", "S", "A", "S", " ", "O", "P", "E", "R", "A", "C", "I", "O", "N", "A", "I", "S">>>>,
        row |-> 11, is_list |-> FALSE],
       [labels |-> <<<<"D", "E", "S", "P", "E", "S", "A", "S", " ", "F", "I", "N", "A", "N", "C", "E", "I", "R", "A", "S">>>>,
        row |-> 14, is_list |-> FALSE],
       [labels |-> <<<<"O", "U", "T", "R", "A", "S", " ", "D", "E", "S", "P", "E", "S", "A", "S", "/", "R", "E", "C", "E", "I", "T", "A", "S">>,
                     <<"O", "U", "T", "R", "A", "S", " ", "R", "E", "C", "E", "I", "T", "A", "S", " ", "E", " ", "D", "E", "S", "P", "E", "S", "A", "S">>>>,
        row |-> 15, is_list |-> TRUE],
       [labels |-> <<<<"L", "U", "C", "R", "O", " ", "(", "P", "R", "E", "J", "U", "I", "Z", "O", ")", " ", "L", "I", "Q", "U", "I", "D", "O", " ", "D", "O", " ", "E", "X", "E", "R", "C", "I", "C", "I", "O">>,
                     <<"R", "E", "S", "U", "L", "T", "A", "D", "O", " ", "L", "I", "Q", "U", "I", "D", "O">>>>,
        row |-> 17, is_list |-> TRUE] >>

\* lines 173-179 and 186-194: the labels of an entry from position j on, each
\* extraction logged, up to and including the first that succeeds
RECURSIVE DreSynonyms(_, _, _, _, _)
DreSynonyms(pdf, st, labels, row, j) ==
    IF j > Len(labels) THEN [st |-> st, found |-> FALSE, val_str |-> <<>>]
    ELSE With(extract_final_balance_by_label(pdf, labels[j]), LAMBDA x :
         With(Log(st, Event("dre", "extract", labels[j], row, x.found)), LAMBDA st1 :
             IF x.found THEN [st |-> st1, found |-> TRUE, val_str |-> x.val]
             ELSE DreSynonyms(pdf, st1, labels, row, j + 1)))

\* one iteration of the loop of lines 170-207
DreEntry(pdf, st, failing, column_prefix, sheet_name, i) ==
    LET labels == dre_mapping[i].labels
        row == dre_mapping[i].row
    IN  With(DreSynonyms(pdf, st, labels, row, 1), LAMBDA s :
            IF ~s.found
            THEN Log(s.st, Event("dre", "print", <<>>, row, FALSE))
            ELSE With(parse_currency_str(s.val_str), LAMBDA val_num :
                IF ~val_num.ok
                THEN Log(s.st, Event("dre", "print", <<>>, row, FALSE))
                ELSE With(update_balance_sheet(s.st, failing, val_num,
                                               CellRef(sheet_name, column_prefix, row), TRUE,
                                               Event("dre", "write", <<>>, row, TRUE)),
                          LAMBDA w :
                    IF w.raised
                    THEN Log(w.st, Event("dre", "print", <<>>, row, FALSE))
                    ELSE w.st)))

\* the loop from entry i on: `next` is the state when iteration i has ended
RECURSIVE DreLoop(_, _, _, _, _, _)
DreLoop(pdf, st, failing, column_prefix, sheet_name, i) ==
    IF i > Len(dre_mapping) THEN st
    ELSE TheOnly({DreLoop(pdf, next, failing, column_prefix, sheet_name, i + 1) :
                    next \in {DreEntry(pdf, st, failing, column_prefix, sheet_name, i)}})

handle_dre(pdf, st, failing, column_prefix, sheet_name) ==
    [st |-> DreLoop(pdf, st, failing, column_prefix, sheet_name, 1), raised |-> ""]

----------------------------------------------------------------------------
(* process_balance_analysis_pdf *)

\* The workbook on entry, the document and the two column prefixes give the
\* state on exit and the exception that left the call ("" when it returned;
\* its return value is then None, whatever was printed).
process_balance_analysis_pdf(workbook0, pdf_bytes, failing, balanco_column_prefix, dre_column_prefix) ==
    With(extract_section_types(pdf_bytes), LAMBDA sections :
    With([workbook |-> workbook0, writes |-> 0, trace |-> <<>>], LAMBDA st0 :
    With(IF "balanco" \in sections
         THEN handle_balanco(pdf_bytes, st0, failing, balanco_column_prefix,
                             SHEET_BALANCO)
         ELSE [st |-> st0, raised |-> ""], LAMBDA b :
        IF b.raised # "" THEN b
        ELSE With(IF "dre" \in sections
                  THEN handle_dre(pdf_bytes, b.st, failing, dre_column_prefix, SHEET_DRE)
                  ELSE [st |-> b.st, raised |-> ""], LAMBDA d :
            IF sections = {}
            THEN [st |-> Log(d.st, Event("process", "print", <<>>, 0, FALSE)),
                  raised |-> ""]
            ELSE d))))

----------------------------------------------------------------------------
(* update_balance_analysis: the request handler *)

col_map ==
    (Y2021 :> <<"B", "B">>) @@ (Y2022 :> <<"C", "D">>)
        @@ (Y2023 :> <<"D", "F">>) @@ (Y2024 :> <<"E", "H">>)

\* os.path.splitext(filename)[0] for a name without directory part: the name
\* up to its last dot, unless only dots come before that dot
SplitExtRoot(filename) ==
    LET dots == {i \in 1..Len(filename) : filename[i] = "."}
    IN  IF dots = {} \/ \A i \in 1..(Max(dots) - 1) : filename[i] = "."
        THEN filename
        ELSE SubSeq(filename, 1, Max(dots) - 1)

\* name_no_ext[-4:]
YearOf(filename) ==
    LET name_no_ext == SplitExtRoot(filename)
    IN  SubSeq(name_no_ext, Max({1, Len(name_no_ext) - 3}), Len(name_no_ext))

UploadFile(content_type, filename, pdf) ==
    [content_type |-> content_type, filename |-> filename, pdf |-> pdf]

NotPdf(file) == file.content_type # APPLICATION_PDF

YearNotSupported(file) == YearOf(file.filename) \notin DOMAIN col_map

varsParse == <<val_str, parsed, pcParse>>
varsExtract == <<pdf_source, label_text, extracted, pcExtract>>
varsRequest == <<files, fileNo, response, workbook, trace, processed, raised>>
vars == <<varsParse, varsExtract, varsRequest>>

ParseIdle == val_str = <<>> /\ parsed = ValueError /\ pcParse = "idle"

ExtractIdle ==
    pdf_source = <<>> /\ label_text = <<>> /\ extracted = NotFound /\ pcExtract = "idle"

RequestIdle ==
    /\ files = <<>> /\ fileNo = 0 /\ response = 0 /\ workbook = EmptyWorkbook
    /\ trace = <<>> /\ processed = <<>> /\ raised = ""

\* the media type of every file checked before the first is read
RejectMediaTypeOfAnyFile ==
    /\ response = 0 /\ fileNo >= 1 /\ fileNo <= Len(files)
    /\ \E j \in fileNo..Len(files) : NotPdf(files[j])
    /\ response' = 400
    /\ UNCHANGED <<files, fileNo, workbook, trace, processed, raised, varsParse, varsExtract>>

\* line 29-30: the file of this iteration is not a PDF
RejectMediaType ==
    /\ response = 0 /\ fileNo >= 1 /\ fileNo <= Len(files)
    /\ NotPdf(files[fileNo])
    /\ response' = 400
    /\ UNCHANGED <<files, fileNo, workbook, trace, processed, raised, varsParse, varsExtract>>

\* lines 31-37: the year of its name is not a key of col_map
RejectYear ==
    /\ response = 0 /\ fileNo >= 1 /\ fileNo <= Len(files)
    /\ ~NotPdf(files[fileNo])
    /\ YearNotSupported(files[fileNo])
    /\ response' = 400
    /\ UNCHANGED <<files, fileNo, workbook, trace, processed, raised, varsParse, varsExtract>>

MaxFailOrdinal == 2

\* lines 38-50: the core runs on the file; an exception that leaves it ends
\* the request with status 500, otherwise the loop goes on to the next file
ProcessFile ==
    /\ response = 0 /\ fileNo >= 1 /\ fileNo <= Len(files)
    /\ ~NotPdf(files[fileNo])
    /\ ~YearNotSupported(files[fileNo])
    /\ \E failing \in SUBSET (1..MaxFailOrdinal) :
        \E cols \in {col_map[YearOf(files[fileNo].filename)]} :
        \E r \in {process_balance_analysis_pdf(workbook, files[fileNo].pdf, failing,
                                                cols[1], cols[2])} :
            /\ workbook' = r.st.workbook
            /\ trace' = r.st.trace
            /\ raised' = r.raised
            /\ processed' = Append(processed, fileNo)
            /\ IF r.raised # ""
               THEN response' = 500 /\ fileNo' = fileNo
               ELSE response' = response /\ fileNo' = fileNo + 1
    /\ UNCHANGED <<files, varsParse, varsExtract>>

\* lines 52-56: every file went through; the workbook file is returned
Respond ==
    /\ response = 0 /\ fileNo > Len(files)
    /\ response' = 200
    /\ UNCHANGED <<files, fileNo, workbook, trace, processed, raised, varsParse, varsExtract>>

----------------------------------------------------------------------------
(* Specification of the currency parser alone *)

MaxAmountLen == 4

AmountAlphabet == {"0", "5", ".", ",", "(", ")", " "}

Amount_1_234_567_89 == <<"1", ".", "2", "3", "4", ".", "5", "6", "7", ",", "8", "9">>
Amount_Neg500 == <<"(", "5", "0", "0", ",", "0", "0", ")">>
Amount_Unbalanced == <<"(", "5", "0", "0", ",", "0", "0">>
Amount_TwoCommas == <<"1", ",", "5", ",", "0", "0">>

AmountInputs ==
    StringsUpTo(AmountAlphabet, MaxAmountLen)
        \cup {Amount_1_234_567_89, Amount_Neg500, Amount_Unbalanced, Amount_TwoCommas}

InitParse ==
    /\ val_str \in AmountInputs
    /\ parsed = ValueError
    /\ pcParse = "call"
    /\ ExtractIdle
    /\ RequestIdle

ParseCurrency ==
    /\ pcParse = "call"
    /\ parsed' = parse_currency_str(val_str)
    /\ pcParse' = "done"
    /\ UNCHANGED <<val_str, varsExtract, varsRequest>>

NextParse == ParseCurrency

SpecParse == InitParse /\ [][NextParse]_vars

----------------------------------------------------------------------------
(* The rule sequence of the currency parser as the specification words it *)

SpecRuleParse(text) ==
    LET trimmed == Strip(text)
        wrapped == StartsWith(trimmed, "(") /\ EndsWith(trimmed, ")")
        inner == IF wrapped THEN SubSeq(trimmed, 2, Len(trimmed) - 1) ELSE trimmed
        noDots == SelectSeq(inner, LAMBDA c : c # ".")
        decimal == [i \in 1..Len(noDots) |-> IF noDots[i] = "," THEN "." ELSE noDots[i]]
        num == float(decimal)
    IN  IF num.ok THEN [num EXCEPT !.neg = wrapped] ELSE ValueError

CountOf(s, c) == Cardinality({i \in 1..Len(s) : s[i] = c})

\* C7: parse_currency_str computes exactly the specification's rule sequence
\* (trim; strip a wrapping pair of parentheses and mark negative; delete
\* every '.'; replace every ',' by '.'; parse or fail) on every string over
\* digits, '.', ',', '(', ')' and space; 1.234.567,89 is 1234567.89,
\* (500,00) is -500.00, (500,00 fails and more than one comma always fails.
C7_ParseFollowsRules ==
    pcParse = "done" =>
        /\ parsed = SpecRuleParse(val_str)
        /\ (val_str = Amount_1_234_567_89 => parsed = Number(FALSE, 123456789, 2))
        /\ (val_str = Amount_Neg500 => parsed = Number(TRUE, 500, 0))
        /\ (val_str = Amount_Unbalanced => parsed = ValueError)
        /\ (CountOf(val_str, ",") > 1 => parsed = ValueError)

C7_Witness ==
    /\ pcParse = "done"
    /\ val_str = <<"(", " ", "5", ")">>
    /\ parsed = Number(TRUE, 5, 0)

----------------------------------------------------------------------------
(* Specification of the label-value extractor alone *)

MaxTextLen == 5
MaxPages == 2

TextAlphabet == {"A", "x", " ", "1", "0", ",", "("}

LABEL_A == <<"A">>
ATIVO == <<"A", "T", "I", "V", "O">>

\* one-page documents without tables, any short text
TextDocuments == {<<Page(<<>>, t)>> : t \in StringsUpTo(TextAlphabet, MaxTextLen)}

HeaderRow == <<<<"C", "o", "n", "t", "a">>, <<"S", "a", "l", "d", "o", " ", "I", "n", "i", "c", "i", "a", "l">>, <<"S", "a", "l", "d", "o", " ", "F", "i", "n", "a", "l">>>>
AtivoRow == <<<<"A", "T", "I", "V", "O">>, <<"1", "0", "0", ",", "0", "0">>, <<"1", "5", "0", ",", "0", "0">>>>
AtivoRowNoFinal == <<<<"A", "T", "I", "V", "O">>, <<"1", "0", "0", ",", "0", "0">>, <<>>>>
OtherHeaderRow == <<<<"C", "o", "n", "t", "a">>, <<"S", "a", "l", "d", "o", " ", "I", "n", "i", "c", "i", "a", "l">>, <<"S", "a", "l", "d", "o", " ", "A", "t", "u", "a", "l">>>>
PassivoRow == <<<<"P", "A", "S", "S", "I", "V", "O">>, <<"7", "0", ",", "0", "0">>, <<"9", "0", ",", "0", "0">>>>

\* the table-form page of the specification's example
TablePage == Page(<<<<HeaderRow, AtivoRow>>>>, <<>>)
\* its text-only counterpart, with other amounts
TextPage == Page(<<>>, <<"A", "t", "i", "v", "o", " ", "1", ",", "0", "0", " ", "2", ",", "0", "0">>)
\* the label followed by a single amount
OneAmountPage == Page(<<>>, <<"A", "t", "i", "v", "o", " ", "1", "0", "0", ",", "0", "0">>)
\* the matching row has an empty final balance; a later table has it
TwoTablePage == Page(<<<<HeaderRow, AtivoRowNoFinal, PassivoRow>>, <<HeaderRow, PassivoRow, AtivoRow>>>>, <<>>)
\* no 'saldo final' column
NoFinalColumnPage == Page(<<<<OtherHeaderRow, AtivoRow>>>>, <<>>)
BlankPage == Page(<<>>, <<>>)

ExamplePages ==
    {TablePage, TextPage, OneAmountPage, TwoTablePage, NoFinalColumnPage, BlankPage}

ExampleDocuments == UNION {[1..k -> ExamplePages] : k \in 1..MaxPages}

InitExtract ==
    /\ \/ pdf_source \in TextDocuments /\ label_text = LABEL_A
       \/ pdf_source \in ExampleDocuments /\ label_text = ATIVO
    /\ extracted = NotFound
    /\ pcExtract = "call"
    /\ ParseIdle
    /\ RequestIdle

ExtractFinalBalance ==
    /\ pcExtract = "call"
    /\ extracted' = extract_final_balance_by_label(pdf_source, label_text)
    /\ pcExtract' = "done"
    /\ UNCHANGED <<pdf_source, label_text, varsParse, varsRequest>>

NextExtract == ExtractFinalBalance

SpecExtract == InitExtract /\ [][NextExtract]_vars

----------------------------------------------------------------------------
(* Documents and requests the model is run on *)

MaxAbsent == 3
MaxFiles == 2

RECURSIVE Numeral(_)
Numeral(n) ==
    IF n < 10 THEN <<CHOOSE d \in Digits : DigitValue(d) = n>>
    ELSE Numeral(n \div 10) \o <<CHOOSE d \in Digits : DigitValue(d) = n % 10>>

\* the closing balance printed on the line that goes to row `row`: row,50
AmountOfRow(row) == Numeral(row) \o <<",", "5", "0">>

OPENING == <<"1", ",", "0", "0">>
MALFORMED == <<"1", ",", "5", ",", "0", "0">>

RECURSIVE BalanceRows(_, _, _)
BalanceRows(absent, malformed, i) ==
    IF i > Len(mapping) THEN <<>>
    ELSE (IF i \in absent THEN <<>>
          ELSE <<<<mapping[i].label, OPENING,
                   IF i \in malformed THEN MALFORMED ELSE AmountOfRow(mapping[i].row)>>>>)
         \o BalanceRows(absent, malformed, i + 1)

ENTITY_LINE == <<"E", "n", "t", "i", "d", "a", "d", "e", ":", " ", "A", "C", "M", "E", " ", "L", "T", "D", "A", "\n">>
ACME_LTDA == <<"A", "C", "M", "E", " ", "L", "T", "D", "A">>
BALANCO_TITLE == <<"B", "A", "L", "A", "N", "C,", "O", " ", "P", "A", "T", "R", "I", "M", "O", "N", "I", "A", "L", "\n">>
DRE_TITLE == <<"D", "E", "M", "O", "N", "S", "T", "R", "A", "C,", "A~", "O", " ", "D", "E", " ", "R", "E", "S", "U", "L", "T", "A", "D", "O", " ", "D", "O", " ", "E", "X", "E", "R", "C", "I'", "C", "I", "O", "\n">>

\* a balance sheet: the lines of `absent` are missing, those of `malformed`
\* carry an amount with two commas
BalancePage(absent, malformed, entity_line) ==
    Page(<<<<HeaderRow>> \o BalanceRows(absent, malformed, 1)>>,
         entity_line \o BALANCO_TITLE)

\* the line items a balance sheet of the family may lack
OptionalLines == {1, 2, 5, 8, 14, 15}

BalanceSheets ==
    {<<BalancePage(absent, malformed, ENTITY_LINE)>> :
        <<absent, malformed>> \in
            {am \in (SUBSET OptionalLines) \X {{}, {2}, {1, 15}} :
                Cardinality(am[1]) <= MaxAbsent /\ am[1] \cap am[2] = {}}}

RECEITA_OPERACIONAL == dre_mapping[1].labels[1]
RECEITA_LIQUIDA == dre_mapping[1].labels[2]
CUSTOS_OPERACIONAIS == dre_mapping[3].labels[1]
CUSTO_DAS_VENDAS == dre_mapping[3].labels[2]
DESPESAS_OPERACIONAIS == dre_mapping[4].labels[1]
DESPESAS_FINANCEIRAS == dre_mapping[5].labels[1]
OUTRAS_RECEITAS_E_DESPESAS == dre_mapping[6].labels[2]
RESULTADO_LIQUIDO == dre_mapping[7].labels[2]

DreRow(label, n) == <<label, OPENING, AmountOfRow(n)>>

\* every first synonym is there, and some second synonyms with other amounts
FullDrePage ==
    Page(<<<<HeaderRow, DreRow(RECEITA_LIQUIDA, 31), DreRow(RECEITA_OPERACIONAL, 32),
             DreRow(CUSTO_DAS_VENDAS, 33), DreRow(CUSTOS_OPERACIONAIS, 34),
             DreRow(DESPESAS_OPERACIONAIS, 35), DreRow(DESPESAS_FINANCEIRAS, 36),
             DreRow(dre_mapping[6].labels[1], 37), DreRow(dre_mapping[7].labels[1], 38)>>>>,
         DRE_TITLE)

\* only second synonyms for the revenue and the result, both synonyms for the
\* costs, no operating expenses, a malformed financial expense, no 'outras'
PartialDrePage ==
    Page(<<<<HeaderRow, DreRow(RECEITA_LIQUIDA, 41), DreRow(CUSTO_DAS_VENDAS, 42),
             DreRow(CUSTOS_OPERACIONAIS, 43),
             <<DESPESAS_FINANCEIRAS, OPENING, MALFORMED>>,
             DreRow(RESULTADO_LIQUIDO, 44)>>>>,
         DRE_TITLE)

\* the stock line is in the text only
TextBalancePage ==
    Page(<<<<HeaderRow>> \o BalanceRows({5}, {}, 1)>>,
         ENTITY_LINE \o BALANCO_TITLE \o <<"E", "s", "t", "o", "q", "u", "e", "s", " ", "1", "0", ",", "0", "0", " ", "2", "0", ",", "0", "0", "\n">>)

BothSections == <<BalancePage({}, {}, ENTITY_LINE), FullDrePage>>
BothSectionsNoEntity == <<BalancePage({4, 9}, {}, <<>>), PartialDrePage>>
DreOnly == <<PartialDrePage>>
BalanceWithText == <<TextBalancePage>>
NoSection == <<Page(<<>>, ACME_LTDA)>>

NAME_2021 == <<"b", "a", "l", "a", "n", "c", "o", "_", "2", "0", "2", "1", ".", "p", "d", "f">>
NAME_2024 == <<"d", "r", "e", ".", "2", "0", "2", "4", ".", "p", "d", "f">>
NAME_1999 == <<"b", "a", "l", "a", "n", "c", "o", "_", "1", "9", "9", "9", ".", "p", "d", "f">>
NAME_SHORT == <<"a", ".", "p", "d", "f">>
IMAGE_PNG == <<"i", "m", "a", "g", "e", "/", "p", "n", "g">>

\* requests of one PDF of a supported year
SingleRequests ==
    {<<UploadFile(APPLICATION_PDF, NAME_2021, pdf)>> :
        pdf \in BalanceSheets \cup {BothSections, BalanceWithText}}

BatchFiles ==
    {UploadFile(APPLICATION_PDF, NAME_2024, DreOnly),
     UploadFile(APPLICATION_PDF, NAME_2021, BothSectionsNoEntity),
     UploadFile(APPLICATION_PDF, NAME_2021, NoSection),
     UploadFile(IMAGE_PNG, NAME_2021, DreOnly),
     UploadFile(APPLICATION_PDF, NAME_1999, DreOnly),
     UploadFile(APPLICATION_PDF, NAME_SHORT, DreOnly)}

BatchRequests == UNION {[1..k -> BatchFiles] : k \in 1..MaxFiles}

Init ==
    /\ files \in SingleRequests \cup BatchRequests
    /\ fileNo = 1
    /\ response = 0
    /\ workbook = EmptyWorkbook
    /\ trace = <<>>
    /\ processed = <<>>
    /\ raised = ""
    /\ ParseIdle
    /\ ExtractIdle

Next == RejectMediaType \/ RejectYear \/ ProcessFile \/ Respond

Spec == Init /\ [][Next]_vars

----------------------------------------------------------------------------
(* Properties of the extractor *)

\* the pages of the document on which the table path matches
TablePages(pdf, label) ==
    {p \in 1..Len(pdf) : TablePath(pdf[p], normalize_text(label)).found}

\* C1: the text fallback is used only if the table path matched on no page:
\* when some page has a table with a 'saldo final' header and a row with the
\* label and a non-empty final balance, the result is that cell of the first
\* such page, whatever the text of earlier pages.
C1_TableBeforeAnyText ==
    (pcExtract = "done" /\ TablePages(pdf_source, label_text) # {}) =>
        LET p == Min(TablePages(pdf_source, label_text))
        IN  extracted =
                Found(TablePath(pdf_source[p], normalize_text(label_text)).val, p, "table")

\* The maximal runs of digits, '.', ',', '(' and ')' of t from position p on,
\* in order, each as the string it spells.
RECURSIVE NumericTokens(_, _)
NumericTokens(t, p) ==
    IF p > Len(t) THEN <<>>
    ELSE IF t[p] \notin TokenChars THEN NumericTokens(t, p + 1)
    ELSE LET ends == {e \in p..Len(t) :
                        /\ \A j \in p..e : t[j] \in TokenChars
                        /\ (e = Len(t) \/ t[e + 1] \notin TokenChars)}
             e == Min(ends)
         IN  <<SubSeq(t, p, e)>> \o NumericTokens(t, e + 1)

\* the tokens that follow the first occurrence of the label in the
\* normalized text of a page (none when the label does not occur)
TokensAfterLabel(page, label) ==
    LET t == normalize_text(page.text)
        lab == normalize_text(label)
        at == {s \in 1..(Len(t) - Len(lab) + 1) : SubSeq(t, s, s + Len(lab) - 1) = lab}
    IN  IF at = {} THEN <<>> ELSE NumericTokens(t, Min(at) + Len(lab))

\* page p is reached by the page loop and its tables do not match
ReachedTextOf(pdf, label, p) ==
    /\ \A q \in 1..(p - 1) : ~PageLookup(pdf[q], normalize_text(label)).found
    /\ ~TablePath(pdf[p], normalize_text(label)).found

\* C6: on the text-fallback path the extractor returns the second numeric
\* token after the label, whole, never the first: for a page without a
\* matching table whose normalized text has the label followed by two
\* separate numeric tokens, the result is the second token.
C6_SecondTokenReturned ==
    pcExtract = "done" =>
        \A p \in 1..Len(pdf_source) :
            (/\ ReachedTextOf(pdf_source, label_text, p)
             /\ Len(TokensAfterLabel(pdf_source[p], label_text)) >= 2)
            => extracted = Found(TokensAfterLabel(pdf_source[p], label_text)[2], p, "text")

C6_Witness ==
    /\ pcExtract = "done"
    /\ pdf_source = <<TextPage>>
    /\ label_text = ATIVO
    /\ extracted = Found(<<"2", ",", "0", "0">>, 1, "text")

\* C10: the text fallback never returns a fragment of a numeric token: a value
\* it returns is a whole numeric token of the page text after the first token
\* that follows the label, so a label followed by exactly one numeric token
\* does not match on that page.
C10_NeverAFragment ==
    (pcExtract = "done" /\ extracted.path = "text") =>
        LET toks == TokensAfterLabel(pdf_source[extracted.page], label_text)
        IN  /\ Len(toks) >= 2
            /\ \E k \in 2..Len(toks) : extracted.val = toks[k]


----------------------------------------------------------------------------
(* Properties of the core and of the request handler.  `trace` holds the   *)
(* events of the last call of the core, `processed` the files it was       *)
(* called for, `raised` the exception that left the last call.             *)

CoreRan == processed # <<>>

\* the file of the last call of the core and the column prefixes it was given
LastFile == files[processed[Len(processed)]]
LastPdf == LastFile.pdf
LastCols == col_map[YearOf(LastFile.filename)]

EventsOf(mapper) == SelectSeq(trace, LAMBDA e : e.mapper = mapper)

\* a cell write for a line item (the write of the entity name to B3 is not)
IsLabelWrite(e) == e.op = "write" /\ ~(e.mapper = "balanco" /\ e.row = 3)

\* a per-label error: the line printed by the except clause of an entry
IsLabelError(e) == e.op = "print" /\ e.mapper \in {"balanco", "dre"} /\ ~e.ok

\* the synonyms of income-statement entry i that the extractor finds
DreHits(pdf, i) ==
    {j \in 1..Len(dre_mapping[i].labels) :
        extract_final_balance_by_label(pdf, dre_mapping[i].labels[j]).found}

\* the value of the lowest-index synonym found, parsed
DreChosen(pdf, i) ==
    parse_currency_str(
        extract_final_balance_by_label(pdf, dre_mapping[i].labels[Min(DreHits(pdf, i))]).val)

\* C2: a missing entity name is fatal for the balance-sheet pass only: for a
\* document with both sections and no 'Entidade:' on any page the core still
\* runs the income-statement mapper, so every income-statement entry that is
\* found and parses is written to sheet 'DRE e CICLO'.
C2_DreRunsWithoutEntity ==
    (/\ CoreRan
     /\ extract_section_types(LastPdf) = {"balanco", "dre"}
     /\ \A p \in 1..Len(LastPdf) : ~Contains(LastPdf[p].text, ENTIDADE))
    => \A i \in 1..Len(dre_mapping) :
          (DreHits(LastPdf, i) # {} /\ DreChosen(LastPdf, i).ok)
          => /\ CellRef(SHEET_DRE, LastCols[2], dre_mapping[i].row) \in DOMAIN workbook
             /\ workbook[CellRef(SHEET_DRE, LastCols[2], dre_mapping[i].row)]
                    = Cell(DreChosen(LastPdf, i), TRUE)

\* C3: a failed cell write is fatal: when the write for a line item fails in
\* either mapper, no further cell write is attempted for the document and the
\* failure leaves the core as an exception.
C3_WriteFailureIsFatal ==
    \A k \in 1..Len(trace) :
        (IsLabelWrite(trace[k]) /\ ~trace[k].ok)
        => /\ \A m \in (k + 1)..Len(trace) : trace[m].op # "write"
           /\ raised # ""

\* C4: the core returns the per-label failures to its caller: the success
\* value is the result only when no label failed.  The core returns nothing
\* but None, the value of a run without failures, so a call in which some
\* label was not found or did not parse must not return.
C4_FailuresReachTheCaller ==
    (CoreRan /\ \E k \in 1..Len(trace) : IsLabelError(trace[k])) => raised # ""

\* the line items of the balance sheet that are not found or do not parse
BalancoFailed(pdf) ==
    {i \in 1..Len(mapping) :
        LET x == extract_final_balance_by_label(pdf, mapping[i].label)
        IN  ~x.found \/ ~parse_currency_str(x.val).ok}

BalancoExtracts == SelectSeq(EventsOf("balanco"), LAMBDA e : e.op = "extract")
BalancoWrites == SelectSeq(EventsOf("balanco"), IsLabelWrite)
BalancoErrors == SelectSeq(EventsOf("balanco"), IsLabelError)

\* the entity name was found and no write of the balance-sheet mapper failed
BalancoRanToEnd ==
    /\ CoreRan
    /\ EventsOf("balanco") # <<>>
    /\ \A k \in 1..Len(EventsOf("balanco")) :
          EventsOf("balanco")[k].op = "write" => EventsOf("balanco")[k].ok

\* C5: the balance-sheet mapper never aborts on a missing or malformed line
\* item: when the entity name is found and the writes succeed, the 15 labels
\* are each attempted once in declared order, and with k labels not found or
\* not parsing there are exactly 15-k currency cell writes, each at
\* column prefix + row of a label that succeeded, and exactly k errors.
C5_BalancoNeverAborts ==
    BalancoRanToEnd =>
        LET failed == BalancoFailed(LastPdf)
        IN  /\ [k \in 1..Len(BalancoExtracts) |-> BalancoExtracts[k].label]
                  = [i \in 1..Len(mapping) |-> mapping[i].label]
            /\ Len(BalancoWrites) = Len(mapping) - Cardinality(failed)
            /\ Len(BalancoErrors) = Cardinality(failed)
            /\ \A i \in 1..Len(mapping) :
                  LET ref == CellRef(SHEET_BALANCO, LastCols[1], mapping[i].row)
                      writes == {k \in 1..Len(BalancoWrites) :
                                    BalancoWrites[k].row = mapping[i].row}
                  IN  IF i \in failed THEN writes = {}
                      ELSE /\ Cardinality(writes) = 1
                           /\ ref \in DOMAIN workbook
                           /\ workbook[ref] =
                                Cell(parse_currency_str(
                                        extract_final_balance_by_label(
                                            LastPdf, mapping[i].label).val), TRUE)

\* three of the fifteen lines are absent: 12 writes and 3 errors
C5_Witness ==
    /\ response = 200
    /\ BalancoRanToEnd
    /\ LastPdf = <<BalancePage({2, 8, 15}, {}, ENTITY_LINE)>>
    /\ Len(BalancoExtracts) = 15
    /\ Len(BalancoWrites) = 12
    /\ Len(BalancoErrors) = 3

\* C8: for every entry of the income-statement mapper the synonyms are tried
\* in declared order and the first success ends the search: the value written
\* to column prefix + row is that of the lowest-index synonym found, no later
\* synonym is extracted, and an error is recorded for the entry, with no cell
\* write, only when no synonym is found or the chosen value does not parse;
\* in either case the mapper goes on with the next entry.
C8_FirstSynonymWins ==
    EventsOf("dre") # <<>> =>
        \A i \in 1..Len(dre_mapping) :
            LET labels == dre_mapping[i].labels
                row == dre_mapping[i].row
                ofRow(op) == SelectSeq(EventsOf("dre"),
                                       LAMBDA e : e.op = op /\ e.row = row)
                hits == DreHits(LastPdf, i)
                ref == CellRef(SHEET_DRE, LastCols[2], row)
            IN  /\ Len(ofRow("extract")) = IF hits = {} THEN Len(labels) ELSE Min(hits)
                /\ \A k \in 1..Len(ofRow("extract")) : ofRow("extract")[k].label = labels[k]
                /\ \A k \in 1..Len(ofRow("write")) :
                      ofRow("write")[k].ok =>
                          /\ hits # {}
                          /\ ref \in DOMAIN workbook
                          /\ workbook[ref] = Cell(DreChosen(LastPdf, i), TRUE)
                /\ \A k \in 1..Len(ofRow("print")) :
                      ~ofRow("print")[k].ok =>
                          /\ hits = {} \/ ~DreChosen(LastPdf, i).ok
                          /\ ofRow("write") = <<>>

\* C9 as stated: a request that ends with a 400 for a file that is not a PDF
\* or whose year is not in the lookup table has called the core for no file
\* of the batch and has left the workbook as it was.
C9_NoFileProcessedOnRejection ==
    response = 400 => processed = <<>> /\ workbook = EmptyWorkbook

\* C9 amended: the files are checked one by one in upload order, each just
\* before the core runs on it: at a 400 the rejected file is not a PDF or has
\* a year outside the lookup table, the core has been called for every file
\* before it, each a PDF of a supported year, and for no other file; the
\* workbook is as it was when the rejected file is the first.
C9_RejectionBeforeTheCoreRunsOnThatFile ==
    response = 400 =>
        /\ fileNo \in 1..Len(files)
        /\ NotPdf(files[fileNo]) \/ YearNotSupported(files[fileNo])
        /\ processed = [i \in 1..(fileNo - 1) |-> i]
        /\ \A i \in 1..(fileNo - 1) :
              ~NotPdf(files[i]) /\ ~YearNotSupported(files[i])
        /\ fileNo = 1 => workbook = EmptyWorkbook

\* the second file of a batch is rejected after the core wrote the first
C9_Witness ==
    /\ response = 400
    /\ fileNo = 2
    /\ processed = <<1>>
    /\ workbook # EmptyWorkbook

====
